---- MODULE Spec2Model ----
(***************************************************************************)
(* Model of goit-pycore-hw-05: the log parser (src/log_parser.py) and the  *)
(* contacts bot (src/bot_helper.py).                                       *)
(*                                                                         *)
(* A Python str is modelled as a sequence of one-character strings, so     *)
(* that split, join, upper, lower, padding and len are computed character  *)
(* by character.  The Cyrillic literals of log_parser.py are written with  *)
(* one Latin character per Cyrillic character (same lengths).              *)
(*                                                                         *)
(* log_parser.py breaks an f-string inside a replacement field (lines      *)
(* 114-115), which is Python 3.12 syntax: the model is of the module as    *)
(* Python 3.12 or later runs it.                                           *)
(***************************************************************************)
EXTENDS Integers, Sequences, FiniteSets, TLC

VARIABLES
    \* --- log_parser.py, the __main__ script ---
    argv,            \* sys.argv
    fileExists,      \* Path(file_path).is_file()
    fileContent,     \* the characters of the file
    pc,              \* position of the script
    lines,           \* main: lines
    logs,            \* main: logs
    log_counts,      \* main: log_counts (ordered mapping: sequence of <<level, count>>)
    selected_level,  \* main: selected_level
    filtered_logs,   \* main: filtered_logs
    stdout,          \* what print() has written, one entry per print call
    error,           \* the exception that ended the run, "None" if none
    \* --- parse_log_line / ' '.join(log) applied to one line ---
    line,            \* the argument of parse_log_line
    result,          \* its outcome
    printed,         \* the text display_selected_level prints for the entry
    ppc,             \* "input", "parsed", "printed"
    \* --- bot_helper.py, main() ---
    contacts,        \* main: contacts (dict, as a function on its key set)
    command,         \* main: command, of the last line read
    reply,           \* the text of the last print()
    bpc,             \* "running", "closed", "crashed"
    added            \* history: names given to add commands that returned "Contact added."

mainVars  == <<argv, fileExists, fileContent, pc, lines, logs, log_counts,
               selected_level, filtered_logs, stdout, error>>
parseVars == <<line, result, printed, ppc>>
botVars   == <<contacts, command, reply, bpc, added>>
vars      == <<mainVars, parseVars, botVars>>

(***************************************************************************)
(* Bounds                                                                  *)
(***************************************************************************)
MaxLineLen == 9
MaxLines == 3
MaxArgs == 3

(***************************************************************************)
(* Python str primitives                                                   *)
(***************************************************************************)
None == "None"

Whitespace == {" ", "\n", "\t"}

\* index of the first occurrence of character c in s, 0 when absent
RECURSIVE find(_, _, _)
find(s, c, from) ==
    IF from > Len(s) THEN 0
    ELSE IF s[from] = c THEN from
    ELSE find(s, c, from + 1)

Tail_(s, i) == SubSeq(s, i, Len(s))

\* str.split(None, maxsplit): runs of whitespace separate, leading whitespace dropped
RECURSIVE split_ws(_, _)
split_ws(s, maxsplit) ==
    IF s = <<>> THEN <<>>
    ELSE IF s[1] \in Whitespace THEN split_ws(Tail(s), maxsplit)
    ELSE IF maxsplit = 0 THEN <<s>>
    ELSE LET ends == {i \in 1..Len(s) : s[i] \in Whitespace}
         IN IF ends = {} THEN <<s>>
            ELSE LET i == CHOOSE k \in ends : \A m \in ends : k <= m
                 IN <<SubSeq(s, 1, i - 1)>> \o split_ws(Tail_(s, i + 1), maxsplit - 1)

\* A split that treats a run of separators as one (line.split(None, 3))
split_runs(s, sep, maxsplit) == split_ws(s, maxsplit)

\* A split that ignores maxsplit (line.split(' '))
RECURSIVE split_nomax(_, _, _)
split_nomax(s, sep, maxsplit) ==
    LET i == find(s, sep, 1)
    IN IF i = 0 THEN <<s>>
       ELSE <<SubSeq(s, 1, i - 1)>> \o split_nomax(Tail_(s, i + 1), sep, maxsplit)

\* str.split(sep, maxsplit) for a one-character sep: every occurrence of sep
\* separates, at most maxsplit times (maxsplit < 0: no limit)
RECURSIVE split(_, _, _)
split(s, sep, maxsplit) ==
    LET i == find(s, sep, 1)
    IN IF maxsplit = 0 \/ i = 0 THEN <<s>>
       ELSE <<SubSeq(s, 1, i - 1)>> \o split(Tail_(s, i + 1), sep, maxsplit - 1)

\* sep.join(parts)
RECURSIVE join(_, _)
join(sep, parts) ==
    IF parts = <<>> THEN <<>>
    ELSE IF Len(parts) = 1 THEN parts[1]
    ELSE parts[1] \o sep \o join(sep, Tail(parts))

(***************************************************************************)
(* log_parser.py                                                           *)
(***************************************************************************)
LogEntry(date, time, level, message) ==
    [date |-> date, time |-> time, level |-> level, message |-> message]

\* iteration over the namedtuple, as ' '.join(log) does
fields(log) == <<log.date, log.time, log.level, log.message>>

\* The outcome of a call: the exception raised ("None" if it returned) and the value
Returned(v) == [exc |-> None, value |-> v]
Raised(e, msg) == [exc |-> e, value |-> msg]

parse_log_line(l) ==
    LET parts == split(l, " ", 3)
    IN IF Len(parts) = 4
       THEN Returned(LogEntry(parts[1], parts[2], parts[3], parts[4]))
       ELSE Raised("ValueError",
    <<"L", "o", "g", " ", "l", "i", "n", "e", " ", "'">>
                   \o l \o
    <<"'", " ", "i", "s", " ", "n", "o", "t", " ", "i", "n", " ", "t", "h",
      "e", " ", "e", "x", "p", "e", "c", "t", "e", "d", " ", "f", "o", "r",
      "m", "a", "t", ".">>)


\* str.upper(), letter by letter
Lowercase == <<"a", "b", "c", "d", "e", "f", "g", "h", "i", "j", "k", "l", "m",
               "n", "o", "p", "q", "r", "s", "t", "u", "v", "w", "x", "y", "z">>
Uppercase == <<"A", "B", "C", "D", "E", "F", "G", "H", "I", "J", "K", "L", "M",
               "N", "O", "P", "Q", "R", "S", "T", "U", "V", "W", "X", "Y", "Z">>

upper_char(c) ==
    IF \E i \in 1..26 : Lowercase[i] = c
    THEN Uppercase[CHOOSE i \in 1..26 : Lowercase[i] = c]
    ELSE c

upper(s) == [i \in 1..Len(s) |-> upper_char(s[i])]

lower_char(c) ==
    IF \E i \in 1..26 : Uppercase[i] = c
    THEN Lowercase[CHOOSE i \in 1..26 : Uppercase[i] = c]
    ELSE c

lower(s) == [i \in 1..Len(s) |-> lower_char(s[i])]

\* c * n
rep(c, n) == [i \in 1..n |-> c]

\* format(s, "<w"): left-aligned, padded with spaces to width w
ljust(s, w) == s \o rep(" ", w - Len(s))

\* str(n) for n >= 0
Digits == <<"0", "1", "2", "3", "4", "5", "6", "7", "8", "9">>

RECURSIVE str(_)
str(n) ==
    IF n < 10 THEN <<Digits[n + 1]>>
    ELSE str(n \div 10) \o <<Digits[(n % 10) + 1]>>

\* max(iterable): ValueError on an empty iterable
max_of(xs) ==
    IF xs = <<>>
    THEN Raised("ValueError",
    <<"m", "a", "x", "(", ")", " ", "a", "r", "g", " ", "i", "s", " ", "a",
      "n", " ", "e", "m", "p", "t", "y", " ", "s", "e", "q", "u", "e", "n",
      "c", "e">>)
    ELSE Returned(CHOOSE m \in {xs[i] : i \in DOMAIN xs} :
                      \A i \in DOMAIN xs : xs[i] <= m)

max2(a, b) == IF a >= b THEN a ELSE b

\* file.readlines(): the lines of the text, each with its line terminator
RECURSIVE readlines(_)
readlines(text) ==
    IF text = <<>> THEN <<>>
    ELSE LET i == find(text, "\n", 1)
         IN IF i = 0 THEN <<text>>
            ELSE <<SubSeq(text, 1, i)>> \o readlines(Tail_(text, i + 1))

load_logs(file_path) ==
    IF ~fileExists
    THEN Raised("FileNotFoundError",
    <<"T", "h", "e", " ", "f", "i", "l", "e", " ">>
                \o file_path \o
    <<" ", "d", "o", "e", "s", " ", "n", "o", "t", " ", "e", "x", "i", "s",
      "t", ".">>)
    ELSE Returned(readlines(fileContent))

filter_logs_by_level(ls, level) ==
    SelectSeq(ls, LAMBDA log : log.level = level)

\* A dict keeps its keys in insertion order: a sequence of <<key, value>>
keys(d) == {d[i][1] : i \in DOMAIN d}

dict_get(d, key) == d[CHOOSE i \in DOMAIN d : d[i][1] = key][2]

\* d[key] = value: a present key keeps its position, a new one goes last
dict_set(d, key, value) ==
    IF key \in keys(d)
    THEN [i \in DOMAIN d |-> IF d[i][1] = key THEN <<key, value>> ELSE d[i]]
    ELSE Append(d, <<key, value>>)

\* An increment that folds the case of the key (log.level.upper())
increment_upper(d, key) ==
    dict_set(d, upper(key), (IF upper(key) \in keys(d) THEN dict_get(d, upper(key)) ELSE 0) + 1)

\* count_lvl_log_dict[key] += 1 on a defaultdict(int)
increment(d, key) ==
    dict_set(d, key, (IF key \in keys(d) THEN dict_get(d, key) ELSE 0) + 1)

RECURSIVE count_loop(_, _)
count_loop(ls, d) ==
    IF ls = <<>> THEN d
    ELSE count_loop(Tail(ls), increment(d, Head(ls).level))

count_logs_by_level(ls) == count_loop(ls, <<>>)

\* One print() call: the statement that wrote it and the text written
Out(kind, text) == [kind |-> kind, text |-> text]

headers == <<
    <<"R", "i", "v", "e", "n", "'", " ", "l", "o", "g", "u", "v", "a", "n",
      "n", "y">>,
    <<"K", "i", "l", "'", "k", "i", "s", "t", "'">> >>

separator == rep("-", 17) \o <<"|">> \o rep("-", 10)

\* display_log_counts: the print() calls it makes, or the exception it raises
\* before the first of them
display_log_counts(counts) ==
    LET level_lens == max_of([i \in DOMAIN counts |-> Len(counts[i][1])])
        count_lens == max_of([i \in DOMAIN counts |-> Len(str(counts[i][2]))])
    IN IF level_lens.exc # None THEN level_lens
       ELSE IF count_lens.exc # None THEN count_lens
       ELSE LET max_level_len == max2(Len(headers[1]), level_lens.value)
                max_count_len == max2(Len(headers[2]), count_lens.value)
                header_row == ljust(headers[1], max_level_len) \o <<" ", "|", " ">>
                              \o ljust(headers[2], max_count_len)
            IN Returned(
                <<Out("header_row", header_row), Out("separator", separator)>>
                \o [i \in DOMAIN counts |->
                      Out("count_row",
                          ljust(counts[i][1], max_level_len) \o <<" ", "|", " ">>
                          \o ljust(str(counts[i][2]), max_count_len))])

display_selected_level(level, filtered) ==
    <<Out("detail_header",
    <<"D", "e", "t", "a", "l", "i", " ", "l", "o", "g", "i", "v", " ", "d",
      "l", "y", " ", "r", "i", "v", "n", "y", " ", "'">>
          \o level \o <<"'", ":">>)>>
    \o [i \in DOMAIN filtered |-> Out("detail_line", join(<<" ">>, fields(filtered[i])))]

(***************************************************************************)
(* parse_log_line and the detail line of one entry, over every line up to  *)
(* MaxLineLen characters                                                   *)
(***************************************************************************)
Alphabet == {"a", "b", " "}

Strings(n) == UNION {[1..k -> Alphabet] : k \in 0..n}

mainIdle == /\ argv = <<>> /\ fileExists = FALSE /\ fileContent = <<>>
            /\ pc = "Idle" /\ lines = <<>> /\ logs = <<>> /\ log_counts = <<>>
            /\ selected_level = None /\ filtered_logs = <<>> /\ stdout = <<>>
            /\ error = None
parseIdle == /\ line = <<>> /\ result = None /\ printed = None /\ ppc = "input"
botIdle == /\ contacts = <<>> /\ command = <<>> /\ reply = <<>>
           /\ bpc = "running" /\ added = {}

ParseInit ==
    /\ line \in Strings(MaxLineLen)
    /\ result = None /\ printed = None /\ ppc = "input"
    /\ mainIdle /\ botIdle

ParseLine ==
    /\ ppc = "input"
    /\ result' = parse_log_line(line)
    /\ ppc' = "parsed"
    /\ UNCHANGED <<line, printed, mainVars, botVars>>

PrintLog ==
    /\ ppc = "parsed"
    /\ result.exc = None
    /\ printed' = join(<<" ">>, fields(result.value))
    /\ ppc' = "printed"
    /\ UNCHANGED <<line, result, mainVars, botVars>>

ParseNext == ParseLine \/ PrintLog

SpecParse == ParseInit /\ [][ParseNext]_vars


(***************************************************************************)
(* The __main__ script of log_parser.py                                    *)
(***************************************************************************)
prog ==
    <<"l", "o", "g", "_", "p", "a", "r", "s", "e", "r", ".", "p", "y">>

path ==
    <<"l", "o", "g", "s", ".", "t", "x", "t">>

\* a level token one character longer than the level header
LongLevel == rep("X", Len(headers[1]) + 1)

SampleLines == {
    <<"0", "1", " ", "1", "0", " ", "I", "N", "F", "O", " ", "u", "p">>,
    <<"0", "1", " ", "1", "1", " ", "i", "n", "f", "o", " ", "a", " ", " ",
      "b">>,
    <<"0", "1", " ", "1", "2", " ", "E", "R", "R", "O", "R", " ", "n", "o">>,
    <<"b", "a", "d", " ", "l", "i", "n", "e">>,
    <<"0", "1", " ", "1", "3", " ">> \o LongLevel \o <<" ", "m">> }

LevelArgs == {
    <<"i", "n", "f", "o">>,
    <<"I", "N", "F", "O">>,
    <<"E", "r", "r", "o", "r">>,
    <<"d", "e", "b", "u", "g">> }

\* the text of a file made of the given lines, the last one with or
\* without its line terminator
RECURSIVE FileText(_, _)
FileText(ls, finalNewline) ==
    IF ls = <<>> THEN <<>>
    ELSE IF Len(ls) = 1
         THEN Head(ls) \o (IF finalNewline THEN <<"\n">> ELSE <<>>)
    ELSE Head(ls) \o <<"\n">> \o FileText(Tail(ls), finalNewline)

Files ==
    {FileText(ls, nl) :
        ls \in UNION {[1..n -> SampleLines] : n \in 0..MaxLines}, nl \in BOOLEAN}

Init ==
    /\ argv \in {<<prog>>, <<prog, path>>} \cup {<<prog, path, l>> : l \in LevelArgs}
    /\ fileExists \in BOOLEAN
    /\ fileContent \in (IF fileExists /\ Len(argv) >= 2 THEN Files ELSE {<<>>})
    /\ pc = "Idle"
    /\ lines = <<>> /\ logs = <<>> /\ log_counts = <<>>
    /\ selected_level = None /\ filtered_logs = <<>>
    /\ stdout = <<>> /\ error = None
    /\ parseIdle /\ botIdle

\* print(f"Error: {e}")
ErrorLine(msg) == Out("error", <<"E", "r", "r", "o", "r", ":", " ">> \o msg)

UsageLine ==
    Out("usage",
    <<"U", "s", "a", "g", "e", ":", " ", "p", "y", "t", "h", "o", "n", " ",
      "l", "o", "g", "_", "p", "a", "r", "s", "e", "r", ".", "p", "y", " ",
      "<", "l", "o", "g", "_", "f", "i", "l", "e", "_", "p", "a", "t", "h",
      ">", " ", "[", "<", "l", "o", "g", "_", "l", "e", "v", "e", "l", ">",
      "]">>)

\* if len(sys.argv) < 2: usage and sys.exit(1)
CheckArgs ==
    /\ pc = "Idle"
    /\ IF Len(argv) < 2
       THEN /\ stdout' = Append(stdout, UsageLine)
            /\ pc' = "Failed"
            /\ error' = "SystemExit"
       ELSE /\ pc' = "Loading"
            /\ UNCHANGED <<stdout, error>>
    /\ UNCHANGED <<argv, fileExists, fileContent, lines, logs, log_counts,
                   selected_level, filtered_logs, parseVars, botVars>>

\* lines = load_logs(file_path), outside the try: an exception ends the run
Load ==
    /\ pc = "Loading"
    /\ LET r == load_logs(argv[2])
       IN IF r.exc # None
          THEN /\ pc' = "Failed"
               /\ error' = r.exc
               /\ UNCHANGED lines
          ELSE /\ lines' = r.value
               /\ pc' = "Reloading"
               /\ UNCHANGED error
    /\ UNCHANGED <<argv, fileExists, fileContent, logs, log_counts,
                   selected_level, filtered_logs, stdout, parseVars, botVars>>

\* The file system belongs to the environment: the file can be removed
\* between the two load_logs calls.  (A removal before the first call is the
\* initial state without the file; one after the second call is not seen.)
Unlink ==
    /\ pc = "Reloading"
    /\ fileExists
    /\ fileExists' = FALSE
    /\ UNCHANGED <<argv, fileContent, pc, lines, logs, log_counts,
                   selected_level, filtered_logs, stdout, error, parseVars, botVars>>

\* except (FileNotFoundError, ValueError) as e: print and sys.exit(1)
Except(r) ==
    /\ stdout' = Append(stdout, ErrorLine(r.value))
    /\ pc' = "Failed"
    /\ error' = r.exc

\* try: lines = load_logs(file_path)
Reload ==
    /\ pc = "Reloading"
    /\ LET r == load_logs(argv[2])
       IN IF r.exc # None
          THEN Except(r) /\ UNCHANGED lines
          ELSE /\ lines' = r.value
               /\ pc' = "Parsing"
               /\ UNCHANGED <<stdout, error>>
    /\ UNCHANGED <<argv, fileExists, fileContent, logs, log_counts,
                   selected_level, filtered_logs, parseVars, botVars>>

\* A parse loop that skips the lines parse_log_line rejects and continues
ParseSkipping ==
    /\ pc = "Parsing"
    /\ logs' = LET good == SelectSeq(lines, LAMBDA l : parse_log_line(l).exc = None)
               IN [i \in DOMAIN good |-> parse_log_line(good[i]).value]
    /\ pc' = "Aggregating"
    /\ UNCHANGED <<argv, fileExists, fileContent, lines, log_counts, selected_level,
                   filtered_logs, stdout, error, parseVars, botVars>>

\* logs = [parse_log_line(line) for line in lines], one element per step;
\* logs holds the list under construction
Parse ==
    /\ pc = "Parsing"
    /\ IF Len(logs) = Len(lines)
       THEN /\ pc' = "Aggregating"
            /\ UNCHANGED <<logs, stdout, error>>
       ELSE LET r == parse_log_line(lines[Len(logs) + 1])
            IN IF r.exc # None
               THEN Except(r) /\ logs' = <<>>
               ELSE /\ logs' = Append(logs, r.value)
                    /\ UNCHANGED <<pc, stdout, error>>
    /\ UNCHANGED <<argv, fileExists, fileContent, lines, log_counts,
                   selected_level, filtered_logs, parseVars, botVars>>

\* log_counts = count_logs_by_level(logs)
Aggregate ==
    /\ pc = "Aggregating"
    /\ log_counts' = count_logs_by_level(logs)
    /\ pc' = "Rendering"
    /\ UNCHANGED <<argv, fileExists, fileContent, lines, logs, selected_level,
                   filtered_logs, stdout, error, parseVars, botVars>>

\* display_log_counts(log_counts), then the test len(sys.argv) > 2
Render ==
    /\ pc = "Rendering"
    /\ LET r == display_log_counts(log_counts)
       IN IF r.exc # None
          THEN /\ pc' = "Failed"
               /\ error' = r.exc
               /\ UNCHANGED stdout
          ELSE /\ stdout' = stdout \o r.value
               /\ pc' = IF Len(argv) > 2 THEN "Filtering" ELSE "Done"
               /\ UNCHANGED error
    /\ UNCHANGED <<argv, fileExists, fileContent, lines, logs, log_counts,
                   selected_level, filtered_logs, parseVars, botVars>>

\* selected_level = sys.argv[2].upper(); filtered_logs = filter_logs_by_level(...)
Filter ==
    /\ pc = "Filtering"
    /\ selected_level' = upper(argv[3])
    /\ filtered_logs' = filter_logs_by_level(logs, selected_level')
    /\ pc' = "RenderingDetail"
    /\ UNCHANGED <<argv, fileExists, fileContent, lines, logs, log_counts,
                   stdout, error, parseVars, botVars>>

\* display_selected_level(selected_level, filtered_logs)
RenderDetail ==
    /\ pc = "RenderingDetail"
    /\ stdout' = stdout \o display_selected_level(selected_level, filtered_logs)
    /\ pc' = "Done"
    /\ UNCHANGED <<argv, fileExists, fileContent, lines, logs, log_counts,
                   selected_level, filtered_logs, error, parseVars, botVars>>

Next ==
    \/ CheckArgs \/ Load \/ Unlink \/ Reload \/ Parse
    \/ Aggregate \/ Render \/ Filter \/ RenderDetail

Spec == Init /\ [][Next]_vars


(***************************************************************************)
(* bot_helper.py                                                           *)
(***************************************************************************)
\* str.strip()
RECURSIVE strip(_)
strip(s) ==
    IF s = <<>> THEN s
    ELSE IF s[1] \in Whitespace THEN strip(Tail(s))
    ELSE IF s[Len(s)] \in Whitespace THEN strip(SubSeq(s, 1, Len(s) - 1))
    ELSE s

\* cmd, *args = user_input.split(): ValueError when there is no word
parse_input(user_input) ==
    LET words == split_ws(user_input, -1)
    IN IF words = <<>>
       THEN Raised("ValueError", <<>>)
       ELSE Returned(<<lower(strip(Head(words)))>> \o Tail(words))

\* The outcome of a handler: the exception it raised or the text it
\* returned, and the contacts dict after the call
Outcome(exc, text, d) == [exc |-> exc, text |-> text, contacts |-> d]

input_error(r) ==
    IF r.exc = "ValueError"
    THEN Outcome(None,
                <<"E", "r", "r", "o", "r", ":", " ", "C", "o", "m", "m", "a", "n", "d",
                  " ", "r", "e", "q", "u", "i", "r", "e", "s", " ", "e", "x", "a", "c",
                  "t", "l", "y", " ", "2", " ", "a", "r", "g", "u", "m", "e", "n", "t",
                  "s", " ", "(", "n", "a", "m", "e", " ", "a", "n", "d", " ", "p", "h",
                  "o", "n", "e", ")", ".">>,
             r.contacts)
    ELSE IF r.exc = "KeyError"
    THEN Outcome(None,
                <<"E", "r", "r", "o", "r", ":", " ", "N", "o", " ", "c", "o", "n", "t",
                  "a", "c", "t", " ", "w", "i", "t", "h", " ", "t", "h", "i", "s", " ",
                  "n", "a", "m", "e", " ", "w", "a", "s", " ", "f", "o", "u", "n", "d",
                  " ", "i", "n", " ", "t", "h", "e", " ", "d", "i", "c", "t", "a", "t",
                  "i", "o", "n">>,
             r.contacts)
    ELSE IF r.exc = "IndexError"
    THEN Outcome(None,
                <<"E", "r", "r", "o", "r", ":", " ", "C", "o", "m", "m", "a", "n", "d",
                  " ", "r", "e", "q", "u", "i", "r", "e", "s", " ", "1", " ", "a", "r",
                  "g", "u", "m", "e", "n", "t", " ", "(", "n", "a", "m", "e", ")">>,
             r.contacts)
    ELSE r

add_contact_func(as, d) ==
    IF Len(as) # 2 THEN Outcome("ValueError", <<>>, d)
    ELSE Outcome(None,
                <<"C", "o", "n", "t", "a", "c", "t", " ", "a", "d", "d", "e", "d", ".">>,
                 dict_set(d, as[1], as[2]))

add_contact(as, d) == input_error(add_contact_func(as, d))

get_number_func(as, d) ==
    IF as = <<>> THEN Outcome("IndexError", <<>>, d)
    ELSE IF as[1] \notin keys(d) THEN Outcome("KeyError", <<>>, d)
    ELSE Outcome(None, dict_get(d, as[1]), d)

get_number(as, d) == input_error(get_number_func(as, d))

\* A change that stores the phone without looking the name up first
change_contact_upsert(as, d) ==
    IF Len(as) # 2 THEN Outcome("ValueError", <<>>, d)
    ELSE Outcome(None,
                <<"C", "o", "n", "t", "a", "c", "t", " ", "u", "p", "d", "a", "t", "e",
                  "d">>,
                 dict_set(d, as[1], as[2]))

change_contact_func(as, d) ==
    IF Len(as) # 2 THEN Outcome("ValueError", <<>>, d)
    ELSE IF as[1] \notin keys(d) THEN Outcome("KeyError", <<>>, d)
    ELSE Outcome(None,
                <<"C", "o", "n", "t", "a", "c", "t", " ", "u", "p", "d", "a", "t", "e",
                  "d">>,
                 IF dict_get(d, as[1]) # <<>> THEN dict_set(d, as[1], as[2]) ELSE d)

change_contact(as, d) == input_error(change_contact_func(as, d))

RECURSIVE show_rows(_)
show_rows(d) ==
    IF d = <<>> THEN <<>>
    ELSE ljust(Head(d)[1], 15) \o <<" ">> \o ljust(Head(d)[2], 15) \o <<"\n", "\n">>
         \o show_rows(Tail(d))

show_all_func(d) ==
    IF d = <<>>
    THEN Outcome(None,
                <<"N", "o", " ", "c", "o", "n", "t", "a", "c", "t", "s", " ", "f", "o",
                  "u", "n", "d", ".">>,
                 d)
    ELSE Outcome(None,
                 <<"\n">> \o rep("-", 30) \o <<"\n">>
                 \o ljust(
                <<"N", "a", "m", "e">>,
                          15) \o <<" ">> \o ljust(
                <<"P", "h", "o", "n", "e", " ", "N", "u", "m", "b", "e", "r">>,
                          15) \o <<"\n">>
                 \o <<"\n">> \o rep("-", 30) \o <<"\n">>
                 \o show_rows(d),
                 d)

show_all(d) == input_error(show_all_func(d))

(***************************************************************************)
(* main() of bot_helper.py: one action per branch of the command loop      *)
(***************************************************************************)
Tokens == {
                <<"a", "l">>,
                <<"7", "5">> }

CommandWords == {
                <<"a", "d", "d">>,
                <<"A", "D", "D">>,
                <<"c", "h", "a", "n", "g", "e">>,
                <<"p", "h", "o", "n", "e">>,
                <<"a", "l", "l">>,
                <<"h", "e", "l", "l", "o">>,
                <<"c", "l", "o", "s", "e">>,
                <<"e", "x", "i", "t">>,
                <<"o", "o", "p", "s">> }

\* what the user may type: a command word and up to MaxArgs words, an empty
\* line, and a line with surrounding and repeated spaces
Inputs ==
    {join(<<" ">>, <<c>> \o as) :
        c \in CommandWords, as \in UNION {[1..n -> Tokens] : n \in 0..MaxArgs}}
    \cup {<<>>,
                <<" ", " ", "A", "d", "d", " ", " ", " ", "a", "l", " ", " ", "7", "5",
                  " ">> }

BotInit ==
    /\ contacts = <<>>
    /\ command = <<>>
    /\ reply =
                <<"W", "e", "l", "c", "o", "m", "e", " ", "t", "o", " ", "t", "h", "e",
                  " ", "a", "s", "s", "i", "s", "t", "a", "n", "t", " ", "b", "o", "t",
                  "!">>
    /\ bpc = "running"
    /\ added = {}
    /\ mainIdle /\ parseIdle

\* command, *args = parse_input(user_input), for every line the user may type
Parsed == {<<user_input, parse_input(user_input)>> : user_input \in Inputs}

\* a line is read and parse_input returns command word c and the arguments
Reads(p, cs) ==
    /\ bpc = "running"
    /\ p[2].exc = None
    /\ Head(p[2].value) \in cs
    /\ command' = Head(p[2].value)

\* args of the line read
Args(p) == Tail(p[2].value)

\* parse_input raises on an empty line: nothing catches it
BadInput ==
    \E user_input \in Parsed :
        /\ bpc = "running"
        /\ user_input[2].exc # None
        /\ bpc' = "crashed"
        /\ UNCHANGED <<contacts, command, reply, added, mainVars, parseVars>>

Close ==
    \E user_input \in Parsed :
        /\ Reads(user_input, {
                <<"c", "l", "o", "s", "e">>,
                <<"e", "x", "i", "t">> })
        /\ reply' =
                <<"G", "o", "o", "d", " ", "b", "y", "e", "!">>
        /\ bpc' = "closed"
        /\ UNCHANGED <<contacts, added, mainVars, parseVars>>

Hello ==
    \E user_input \in Parsed :
        /\ Reads(user_input, {
                <<"h", "e", "l", "l", "o">> })
        /\ reply' =
                <<"H", "o", "w", " ", "c", "a", "n", " ", "I", " ", "h", "e", "l", "p",
                  " ", "y", "o", "u", "?">>
        /\ UNCHANGED <<contacts, bpc, added, mainVars, parseVars>>

\* the handler's text is printed and its dict is the contacts dict
Handled(r) == reply' = r.text /\ contacts' = r.contacts

Add ==
    \E user_input \in Parsed :
        /\ Reads(user_input, {
                <<"a", "d", "d">> })
        /\ Handled(add_contact(Args(user_input), contacts))
        /\ added' = IF reply' =
                <<"C", "o", "n", "t", "a", "c", "t", " ", "a", "d", "d", "e", "d", ".">>
                    THEN added \cup {Args(user_input)[1]} ELSE added
        /\ UNCHANGED <<bpc, mainVars, parseVars>>

Phone ==
    \E user_input \in Parsed :
        /\ Reads(user_input, {
                <<"p", "h", "o", "n", "e">> })
        /\ Handled(get_number(Args(user_input), contacts))
        /\ UNCHANGED <<bpc, added, mainVars, parseVars>>

Change ==
    \E user_input \in Parsed :
        /\ Reads(user_input, {
                <<"c", "h", "a", "n", "g", "e">> })
        /\ Handled(change_contact(Args(user_input), contacts))
        /\ UNCHANGED <<bpc, added, mainVars, parseVars>>

All ==
    \E user_input \in Parsed :
        /\ Reads(user_input, {
                <<"a", "l", "l">> })
        /\ Handled(show_all(contacts))
        /\ UNCHANGED <<bpc, added, mainVars, parseVars>>

Invalid ==
    \E user_input \in Parsed :
        /\ Reads(user_input, {lower(c) : c \in CommandWords} \ {
                <<"c", "l", "o", "s", "e">>,
                <<"e", "x", "i", "t">>,
                <<"h", "e", "l", "l", "o">>,
                <<"a", "d", "d">>,
                <<"p", "h", "o", "n", "e">>,
                <<"c", "h", "a", "n", "g", "e">>,
                <<"a", "l", "l">> })
        /\ reply' =
                <<"I", "n", "v", "a", "l", "i", "d", " ", "c", "o", "m", "m", "a", "n",
                  "d", ".">>
        /\ UNCHANGED <<contacts, bpc, added, mainVars, parseVars>>

BotNext ==
    \/ BadInput \/ Close \/ Hello \/ Add \/ Phone \/ Change \/ All \/ Invalid

SpecBot == BotInit /\ [][BotNext]_vars

(***************************************************************************)
(* Claims about the contacts bot                                           *)
(***************************************************************************)
IsError(text) ==
    /\ Len(text) >= 6
    /\ SubSeq(text, 1, 6) =
                <<"E", "r", "r", "o", "r", ":">>

\* C10: a handler call that returns an "Error:" message leaves contacts
\* unchanged, and the key set of contacts is always the set of names given
\* to successful add commands (change never creates an entry).
C10_ErrorsLeaveContacts ==
    [][/\ IsError(reply') => contacts' = contacts
       /\ keys(contacts') = added']_vars

\* change on a name that is not in contacts has returned its error while
\* another contact is stored
C10_Witness ==
    /\ command = <<"c", "h", "a", "n", "g", "e">>
    /\ reply = input_error(Outcome("KeyError", <<>>, contacts)).text
    /\ contacts # <<>>

(***************************************************************************)
(* Claims about parse_log_line                                             *)
(***************************************************************************)
\* the number of whitespace-delimited segments of a line
NumSegments(l) == Len(split_ws(l, -1))

\* C2: every line with fewer than 4 whitespace-delimited segments makes
\* parse_log_line raise ValueError and return no record.
C2_FewSegmentsRaise ==
    (ppc # "input" /\ NumSegments(line) < 4) => result.exc = "ValueError"

\* l is "D T L M": the first three spaces are at i < j < k and the tokens
\* before them are non-empty
WellFormedAt(l, i, j, k) ==
    /\ 1 < i /\ i + 1 < j /\ j + 1 < k /\ k <= Len(l)
    /\ \A m \in 1..k : (l[m] = " ") <=> (m \in {i, j, k})

\* C3: for every well-formed line "D T L M" (D, T, L non-empty, single
\* spaces between them) parse_log_line returns date = D, time = T, level = L
\* and message = the whole remainder after the third space, unmodified.
C3_WellFormedParsed ==
    ppc # "input" =>
        \A i, j, k \in 1..Len(line) :
            WellFormedAt(line, i, j, k) =>
                result = Returned(LogEntry(SubSeq(line, 1, i - 1),
                                           SubSeq(line, i + 1, j - 1),
                                           SubSeq(line, j + 1, k - 1),
                                           SubSeq(line, k + 1, Len(line))))

HasDoubleSpace(s) == \E m \in 1..(Len(s) - 1) : s[m] = " " /\ s[m + 1] = " "

\* a well-formed line whose message holds consecutive spaces has been parsed
C3_Witness ==
    /\ ppc # "input"
    /\ \E i, j, k \in 1..Len(line) : WellFormedAt(line, i, j, k)
    /\ result.exc = None
    /\ HasDoubleSpace(result.value.message)
    /\ \E m \in 1..Len(result.value.message) : result.value.message[m] # " "

\* C9: whenever parse_log_line succeeds, joining the four fields of the
\* entry with single spaces gives back the line, character for character.
C9_RoundTrip == ppc = "printed" => printed = line

\* an entry with an empty field among the first three has been printed
C9_Witness ==
    /\ ppc = "printed"
    /\ \/ result.value.date = <<>>
       \/ result.value.time = <<>>
       \/ result.value.level = <<>>
    /\ result.value.message # <<>>

(***************************************************************************)
(* Claims about the __main__ script of log_parser.py                       *)
(***************************************************************************)
Terminal == pc \in {"Done", "Failed"}

TableKinds == {"header_row", "separator", "count_row", "detail_header", "detail_line"}

\* a header row, separator, count row or detail line has been written
TableWritten == \E i \in DOMAIN stdout : stdout[i].kind \in TableKinds

\* fewer than three spaces: the line has no four space-separated fields
Malformed(l) == Cardinality({i \in 1..Len(l) : l[i] = " "}) < 3

\* the lines of the file text: it is cut after every line terminator
FileLines ==
    LET cuts == {0} \cup {i \in 1..Len(fileContent) : fileContent[i] = "\n"}
                \cup {Len(fileContent)}
    IN {SubSeq(fileContent, a + 1, b) :
            <<a, b>> \in {c \in cuts \X cuts :
                            c[1] < c[2] /\ \A m \in cuts : ~(c[1] < m /\ m < c[2])}}

\* C1: a run whose source file is missing or that holds a malformed line at
\* any position ends Failed, a Failed run has written no header row,
\* separator, count row or detail line, and the table is written only after
\* every line of the input has been parsed.
C1_NoOutputOnFatalError ==
    /\ pc = "Failed" => ~TableWritten
    /\ (Terminal /\ Len(argv) >= 2 /\ (~fileExists \/ \E l \in FileLines : Malformed(l)))
           => pc = "Failed"
    /\ TableWritten =>
           /\ Len(logs) = Len(lines)
           /\ Len(lines) = Cardinality({i \in 1..Len(fileContent) : fileContent[i] = "\n"})
                           + (IF fileContent # <<>> /\ fileContent[Len(fileContent)] # "\n"
                              THEN 1 ELSE 0)
           /\ \A l \in FileLines : ~Malformed(l)

\* a run over a file whose last of three lines is malformed has failed after
\* parsing the first two
C1_Witness ==
    /\ pc = "Failed"
    /\ error = "ValueError"
    /\ Len(lines) = 3
    /\ ~Malformed(lines[1]) /\ ~Malformed(lines[2]) /\ Malformed(lines[3])
    /\ \E i \in DOMAIN stdout : stdout[i].kind = "error"

Aggregated == pc \in {"Rendering", "Filtering", "RenderingDetail", "Done"}

RECURSIVE SumValues(_)
SumValues(d) == IF d = <<>> THEN 0 ELSE Head(d)[2] + SumValues(Tail(d))

\* C4: the counts of count_logs_by_level add up to the number of records,
\* and each key (the raw level token) counts the records with exactly that
\* level token.
C4_CountsSumToN ==
    Aggregated =>
        /\ SumValues(log_counts) = Len(logs)
        /\ {log_counts[i][1] : i \in DOMAIN log_counts} = {logs[i].level : i \in DOMAIN logs}
        /\ \A i \in DOMAIN log_counts :
               /\ log_counts[i][2] = Cardinality({j \in DOMAIN logs : logs[j].level = log_counts[i][1]})
               /\ \A k \in DOMAIN log_counts : log_counts[k][1] = log_counts[i][1] => k = i

\* a batch with a repeated level and two levels that differ only in case
C4_Witness ==
    /\ Aggregated
    /\ Len(logs) = 3
    /\ \E i, j \in DOMAIN log_counts :
           /\ log_counts[i][1] # log_counts[j][1]
           /\ upper(log_counts[i][1]) = upper(log_counts[j][1])
           /\ log_counts[i][2] = 2

\* C5: filtering compares the requested level with each record's level
\* after uppercasing both sides: the detail section of a run holds exactly
\* the records whose level equals the request up to case.
C5_FilterCaseInsensitive ==
    (pc = "Done" /\ Len(argv) > 2) =>
        filtered_logs = SelectSeq(logs, LAMBDA log : upper(log.level) = upper(argv[3]))

\* C6: a run over an input with zero lines writes the header row and the
\* separator, no count row, and ends Done.
C6_EmptyTableRendered ==
    (Terminal /\ Len(argv) >= 2 /\ fileExists /\ fileContent = <<>>) =>
        /\ pc = "Done"
        /\ Len(stdout) >= 2
        /\ stdout[1].kind = "header_row"
        /\ stdout[2].kind = "separator"
        /\ \A i \in DOMAIN stdout : stdout[i].kind # "count_row"

\* C7: the separator's level segment (up to its "|") is as wide as the
\* padded level column of the header row and the count rows, and its count
\* segment (after the "|") as wide as their padded count column.
C7_SeparatorSizedToColumns ==
    \A i, j \in DOMAIN stdout :
        (stdout[i].kind = "separator" /\ stdout[j].kind \in {"header_row", "count_row"})
            => /\ find(stdout[i].text, "|", 1) = find(stdout[j].text, "|", 1)
               /\ Len(stdout[i].text) = Len(stdout[j].text)

\* C8: every line load_logs returns is without its line terminator, so no
\* parsed message ends in one, and every detail line is the four fields of
\* its record joined by single spaces with no line terminator in it.
C8_NoTrailingNewline ==
    /\ \A i \in DOMAIN lines : find(lines[i], "\n", 1) = 0
    /\ \A i \in DOMAIN logs : find(logs[i].message, "\n", 1) = 0
    /\ \A i \in DOMAIN stdout :
           stdout[i].kind = "detail_line" => find(stdout[i].text, "\n", 1) = 0

====
